---- MODULE Spec2Model ----
(***************************************************************************)
(* Model of the fire-alert session aggregator of the live-monitoring page  *)
(* (src/src/pages/LiveMonitoring.tsx).                                     *)
(*                                                                         *)
(* State: the component's useState cells, the react-query data of the      *)
(* per-device query, the route parameter, and the localStorage entry       *)
(* 'fireAlertSessions'.  Every effect (useEffect callback) is one action;  *)
(* an effect is "due" when one of its dependencies changed in the last     *)
(* commit, and React flushes the due effects before it handles the next    *)
(* external event (a fetch resolving, a click, a navigation).              *)
(*                                                                         *)
(* Representation:                                                         *)
(*  - a timestamp string is represented by its epoch milliseconds          *)
(*    (what new Date(ts).getTime() returns); '' is EmptyTimestamp;         *)
(*  - sensor values are integers; an average is kept as the exact fraction *)
(*    num/den of the division the code performs;                           *)
(*  - null / undefined are the one-field records NoSession / NoData; a      *)
(*    numeric field that is absent (Undefined), holds a value that is not  *)
(*    a number, such as the string 'n/a' (Malformed), or is NaN holds one  *)
(*    of three values outside the range of the sensor values, and the      *)
(*    arithmetic of the model yields NaN on them as JavaScript does.       *)
(*                                                                         *)
(* A reports page (src/src/pages/Reports.tsx) open in another tab shares   *)
(* the localStorage entry.                                                 *)
(***************************************************************************)
EXTENDS Integers, Sequences, FiniteSets, TLC

VARIABLES
    sensorId,                \* useParams().sensorId ("" when the route has none)
    selectedSensorId,        \* useState<string>('')
    isMonitoringFire,        \* useState<boolean>(false)
    queryData,               \* react-query cache of ['fireAlerts', deviceId]
    lastProcessedTimestamp,  \* useState<string>('')
    sensorReadings,          \* useState<SensorReading[]>([])
    currentSession,          \* useState<FireAlertSession | null>(null)
    activeSessions,          \* useState<FireAlertSession[]>([])
    completedSessions,       \* useState<FireAlertSession[]>([])
    storage,                 \* localStorage['fireAlertSessions'], parsed
    dateNow,                 \* the value Date.now() returns at the next session open
    routeDue,                \* the sensorId route effect has a changed dependency
    ingestDue,               \* the reading-ingest effect has a changed dependency
    sessionDue,              \* the session-tracking effect has a changed dependency
    everMerged,              \* history: every reading merged into currentSession, newest first
    fetches,                 \* per-device fetches resolved so far
    events,                  \* selections, navigations and reloads so far
    feed,                    \* the backend's script (SpecFeed), or NoFeed
    answered,                \* history: a fetch resolved since monitoring was last (re)opened
    reportsMounted,          \* a reports page (Reports.tsx) is open in another tab
    sessions,                \* Reports: useState<FireAlertSession[]>([])
    selectedSession,         \* Reports: useState<FireAlertSession | null>(null)
    sessionToDelete,         \* Reports: useState<string | null>(null)
    showDeleteDialog,        \* Reports: useState(false)
    allSensorsData           \* react-query data of ['allFireAlerts']

liveVars == << sensorId, selectedSensorId, isMonitoringFire, queryData,
           lastProcessedTimestamp, sensorReadings, currentSession, activeSessions,
           completedSessions, storage, dateNow, routeDue, ingestDue, sessionDue,
           everMerged, fetches, events, feed >>

reportsVars == << reportsMounted, sessions, selectedSession, sessionToDelete,
                  showDeleteDialog >>

vars == << liveVars, answered, reportsVars, allSensorsData >>

-----------------------------------------------------------------------------
(* Bounds of the model *)

MaxPolls == 3
MaxEvents == 1
SteadyLen == 53
ToggleLen == 23
ShortLen == 6

(* Program constants *)

EmptyTimestamp == -1
NullTime == -2
NullId == 0
Undefined == -1000001
Malformed == -1000002
NaN == -1000000
JsonNull == -1000003
HistoryCap == 20
SessionKeep == 49
ArchiveKeep == 9
MinUpdateGapMs == 5000
TempDelta == 1
SmokeDelta == 5
HumidityDelta == 2

Devices == {"d1", "d2"}
NoSensor == ""
NoSession == [null |-> TRUE]
NoData == [undefined |-> TRUE]
NoFeed == [kind |-> "none"]
NoList == [kind |-> "undefined"]

-----------------------------------------------------------------------------
(* Helpers *)

\* typeof v === 'number' && !isNaN(v)
IsNumber(v) == v \notin {Undefined, Malformed, NaN, JsonNull}

\* a - b
Minus(a, b) == IF IsNumber(a) /\ IsNumber(b) THEN a - b ELSE NaN

\* Math.abs, Math.max, Math.min
Abs(x) == IF ~IsNumber(x) THEN NaN ELSE IF x < 0 THEN -x ELSE x
MathMax(a, b) == IF ~IsNumber(a) \/ ~IsNumber(b) THEN NaN ELSE IF a >= b THEN a ELSE b
MathMin(a, b) == IF ~IsNumber(a) \/ ~IsNumber(b) THEN NaN ELSE IF a <= b THEN a ELSE b

\* a > b (false when either side is NaN)
Greater(a, b) == IsNumber(a) /\ IsNumber(b) /\ a > b

\* the smaller of two array lengths
Shorter(a, b) == IF a <= b THEN a ELSE b

\* Array.prototype.slice(0, n)
Slice0(s, n) == SubSeq(s, 1, Shorter(n, Len(s)))

RECURSIVE SumOfNumbers(_, _)
SumOfNumbers(s, field) ==
    IF s = << >> THEN 0 ELSE Head(s)[field] + SumOfNumbers(Tail(s), field)

\* readings.reduce((sum, r) => sum + r[field], 0): NaN once a term is not a number
SumOf(s, field) ==
    IF \E i \in 1..Len(s) : ~IsNumber(s[i][field]) THEN NaN ELSE SumOfNumbers(s, field)

\* new Date(timestamp).getTime()
GetTime(ts) == ts

-----------------------------------------------------------------------------
(* The reading-ingest side *)

\* data of useQuery(['fireAlerts', selectedSensorId]); the query is disabled
\* (data undefined) while no sensor is selected
ApiResponse(sel, data) == IF sel = NoSensor THEN NoData ELSE data[sel]

apiResponse == ApiResponse(selectedSensorId, queryData)

\* const newReading = {...}
NewReading(api) ==
    [ deviceId  |-> api.deviceId,
      latitude  |-> api.latitude,
      longitude |-> api.longitude,
      humidity  |-> api.humidity,
      temp      |-> api.temp,
      smoke     |-> api.smoke,
      isFire    |-> api.isFire,
      timestamp |-> api.timestamp,
      status    |-> IF api.isFire THEN "warning" ELSE "active" ]

\* A variant that also compares the fire flag
isDuplicateReading_comparesFire(newReading, existingReadings) ==
    \E i \in 1..Len(existingReadings) :
        /\ existingReadings[i].timestamp = newReading.timestamp
        /\ existingReadings[i].temp = newReading.temp
        /\ existingReadings[i].humidity = newReading.humidity
        /\ existingReadings[i].smoke = newReading.smoke
        /\ existingReadings[i].isFire = newReading.isFire

isDuplicateReading(newReading, existingReadings) ==
    \E i \in 1..Len(existingReadings) :
        /\ existingReadings[i].timestamp = newReading.timestamp
        /\ existingReadings[i].temp = newReading.temp
        /\ existingReadings[i].humidity = newReading.humidity
        /\ existingReadings[i].smoke = newReading.smoke

\* A variant that keeps one entry more
AddReading_keepsOneMore(prev, newReading) ==
    IF isDuplicateReading(newReading, prev)
    THEN prev
    ELSE Slice0(<<newReading>> \o prev, HistoryCap + 1)

\* the updater passed to setSensorReadings
AddReading(prev, newReading) ==
    IF isDuplicateReading(newReading, prev)
    THEN prev
    ELSE Slice0(<<newReading>> \o prev, HistoryCap)

-----------------------------------------------------------------------------
(* The session-tracking side *)

\* const plainReading = {...}
PlainReading(latestReading) ==
    [ deviceId  |-> latestReading.deviceId,
      latitude  |-> latestReading.latitude,
      longitude |-> latestReading.longitude,
      humidity  |-> latestReading.humidity,
      temp      |-> latestReading.temp,
      smoke     |-> latestReading.smoke,
      isFire    |-> latestReading.isFire,
      timestamp |-> latestReading.timestamp,
      status    |-> latestReading.status ]

\* a number that is the result of num / den
Frac(num, den) == [num |-> num, den |-> den]

\* A variant that reads the fire flag inverted
ShouldOpen_onCalm(plainReading, session) == ~plainReading.isFire /\ session = NoSession

\* A variant that opens a session on any reading while none is active
ShouldOpen_anyReading(plainReading, session) == session = NoSession

\* if (plainReading.isFire && !currentSession)
ShouldOpen(plainReading, session) == plainReading.isFire /\ session = NoSession

\* A variant that merges any reading into the current session
ShouldUpdate_anyReading(plainReading, session) == session # NoSession

\* else if (plainReading.isFire && currentSession)
ShouldUpdate(plainReading, session) == plainReading.isFire /\ session # NoSession

\* else if (!plainReading.isFire && currentSession)
ShouldClose(plainReading, session) == ~plainReading.isFire /\ session # NoSession

\* A variant that seeds the minima with 0
NewSession_zeroMin(plainReading, now) ==
    [ id          |-> now,
      deviceId    |-> plainReading.deviceId,
      startTime   |-> plainReading.timestamp,
      endTime     |-> NullTime,
      readings    |-> <<plainReading>>,
      maxTemp     |-> plainReading.temp,
      minTemp     |-> 0,
      avgTemp     |-> Frac(plainReading.temp, 1),
      maxSmoke    |-> plainReading.smoke,
      minSmoke    |-> 0,
      avgSmoke    |-> Frac(plainReading.smoke, 1),
      maxHumidity |-> plainReading.humidity,
      minHumidity |-> 0,
      avgHumidity |-> Frac(plainReading.humidity, 1),
      status      |-> "active" ]

\* const newSession: FireAlertSession = {...}
NewSession(plainReading, now) ==
    [ id          |-> now,
      deviceId    |-> plainReading.deviceId,
      startTime   |-> plainReading.timestamp,
      endTime     |-> NullTime,
      readings    |-> <<plainReading>>,
      maxTemp     |-> plainReading.temp,
      minTemp     |-> plainReading.temp,
      avgTemp     |-> Frac(plainReading.temp, 1),
      maxSmoke    |-> plainReading.smoke,
      minSmoke    |-> plainReading.smoke,
      avgSmoke    |-> Frac(plainReading.smoke, 1),
      maxHumidity |-> plainReading.humidity,
      minHumidity |-> plainReading.humidity,
      avgHumidity |-> Frac(plainReading.humidity, 1),
      status      |-> "active" ]

\* A variant that admits every reading
Admitted_always(session, plainReading) == Len(session.readings) > 0

\* A variant whose thresholds are inclusive
Admitted_inclusiveDeltas(session, plainReading) ==
    LET lastSessionReading == session.readings[1]
        timeDiff == GetTime(plainReading.timestamp) - GetTime(lastSessionReading.timestamp)
        significantChange ==
            \/ Abs(Minus(plainReading.temp, lastSessionReading.temp)) >= TempDelta
            \/ Abs(Minus(plainReading.smoke, lastSessionReading.smoke)) >= SmokeDelta
            \/ Abs(Minus(plainReading.humidity, lastSessionReading.humidity)) >= HumidityDelta
    IN  timeDiff > MinUpdateGapMs \/ significantChange

\* A variant that admits on elapsed time only
Admitted_timeOnly(session, plainReading) ==
    GetTime(plainReading.timestamp) - GetTime(session.readings[1].timestamp) > MinUpdateGapMs

\* A variant that admits a reading of the same instant
Admitted_sameInstant(session, plainReading) ==
    LET lastSessionReading == session.readings[1]
        timeDiff == GetTime(plainReading.timestamp) - GetTime(lastSessionReading.timestamp)
        significantChange ==
            \/ Greater(Abs(Minus(plainReading.temp, lastSessionReading.temp)), TempDelta)
            \/ Greater(Abs(Minus(plainReading.smoke, lastSessionReading.smoke)), SmokeDelta)
            \/ Greater(Abs(Minus(plainReading.humidity, lastSessionReading.humidity)),
                       HumidityDelta)
    IN  timeDiff >= 0 \/ significantChange

\* timeDiff > 5000 || significantChange
Admitted(session, plainReading) ==
    LET lastSessionReading == session.readings[1]
        timeDiff == GetTime(plainReading.timestamp) - GetTime(lastSessionReading.timestamp)
        significantChange ==
            \/ Greater(Abs(Minus(plainReading.temp, lastSessionReading.temp)), TempDelta)
            \/ Greater(Abs(Minus(plainReading.smoke, lastSessionReading.smoke)), SmokeDelta)
            \/ Greater(Abs(Minus(plainReading.humidity, lastSessionReading.humidity)),
                       HumidityDelta)
    IN  timeDiff > MinUpdateGapMs \/ significantChange

\* A variant that keeps 50 old readings beside the new one
MergedReadings_keepsOneMore(readings, plainReading) ==
    <<plainReading>> \o Slice0(readings, SessionKeep + 1)

\* readings: [plainReading, ...currentSession.readings.slice(0, 49)]
MergedReadings(readings, plainReading) ==
    <<plainReading>> \o Slice0(readings, SessionKeep)

\* A variant that divides by the reading count before the merge
Average_prevCount(readings, field) == Frac(SumOf(readings, field), Len(readings) - 1)

\* updatedSession.readings.reduce(...) / totalReadings
Average(readings, field) == Frac(SumOf(readings, field), Len(readings))

\* A variant that keeps a running mean over every merged reading
UpdatedSession_runningAvg(session, plainReading) ==
    [ session EXCEPT
        !.readings    = MergedReadings(session.readings, plainReading),
        !.maxTemp     = MathMax(session.maxTemp, plainReading.temp),
        !.minTemp     = MathMin(session.minTemp, plainReading.temp),
        !.maxSmoke    = MathMax(session.maxSmoke, plainReading.smoke),
        !.minSmoke    = MathMin(session.minSmoke, plainReading.smoke),
        !.maxHumidity = MathMax(session.maxHumidity, plainReading.humidity),
        !.minHumidity = MathMin(session.minHumidity, plainReading.humidity),
        !.avgTemp     = Frac(session.avgTemp.num + plainReading.temp,
                             session.avgTemp.den + 1),
        !.avgSmoke    = Frac(session.avgSmoke.num + plainReading.smoke,
                             session.avgSmoke.den + 1),
        !.avgHumidity = Frac(session.avgHumidity.num + plainReading.humidity,
                             session.avgHumidity.den + 1) ]

\* A variant that takes the extrema over the retained readings only
UpdatedSession_windowExtrema(session, plainReading) ==
    LET readings == MergedReadings(session.readings, plainReading)
        values(field) == { readings[i][field] : i \in 1..Len(readings) }
        top(field) == CHOOSE m \in values(field) : \A v \in values(field) : v <= m
        bottom(field) == CHOOSE m \in values(field) : \A v \in values(field) : m <= v
    IN  [ session EXCEPT
            !.readings    = readings,
            !.maxTemp     = top("temp"),
            !.minTemp     = bottom("temp"),
            !.maxSmoke    = top("smoke"),
            !.minSmoke    = bottom("smoke"),
            !.maxHumidity = top("humidity"),
            !.minHumidity = bottom("humidity"),
            !.avgTemp     = Average(readings, "temp"),
            !.avgSmoke    = Average(readings, "smoke"),
            !.avgHumidity = Average(readings, "humidity") ]

\* const updatedSession = {...currentSession, ...}; averages recalculated
UpdatedSession(session, plainReading) ==
    LET readings == MergedReadings(session.readings, plainReading)
    IN  [ session EXCEPT
            !.readings    = readings,
            !.maxTemp     = MathMax(session.maxTemp, plainReading.temp),
            !.minTemp     = MathMin(session.minTemp, plainReading.temp),
            !.maxSmoke    = MathMax(session.maxSmoke, plainReading.smoke),
            !.minSmoke    = MathMin(session.minSmoke, plainReading.smoke),
            !.maxHumidity = MathMax(session.maxHumidity, plainReading.humidity),
            !.minHumidity = MathMin(session.minHumidity, plainReading.humidity),
            !.avgTemp     = Average(readings, "temp"),
            !.avgSmoke    = Average(readings, "smoke"),
            !.avgHumidity = Average(readings, "humidity") ]

\* A variant that leaves endTime null
CompletedSession_noEndTime(session, plainReading) ==
    [ session EXCEPT !.status = "completed" ]

\* A variant that also prepends the closing reading to the reading list
CompletedSession_mergesClosing(session, plainReading) ==
    [ session EXCEPT !.endTime = plainReading.timestamp, !.status = "completed",
                     !.readings = <<plainReading>> \o session.readings ]

\* const completedSession = {...currentSession, endTime, status: 'completed'}
CompletedSession(session, plainReading) ==
    [ session EXCEPT !.endTime = plainReading.timestamp, !.status = "completed" ]

\* A variant that stamps the end time of the closed session on the whole archive
ArchivePush_restamps(prev, completedSession) ==
    <<completedSession>> \o
        [ i \in 1..Len(Slice0(prev, ArchiveKeep)) |->
            [ prev[i] EXCEPT !.endTime = completedSession.endTime ] ]

\* A variant that keeps 10 old sessions beside the new one
ArchivePush_keepsOneMore(prev, completedSession) ==
    <<completedSession>> \o Slice0(prev, ArchiveKeep + 1)

\* [completedSession, ...prev.slice(0, 9)]
ArchivePush(prev, completedSession) ==
    <<completedSession>> \o Slice0(prev, ArchiveKeep)

\* JSON.parse(JSON.stringify(v)) of a number: NaN is written as null
JsonNumber(v) == IF v = NaN THEN JsonNull ELSE v

\* JSON.parse(JSON.stringify(session)): strings, booleans, finite numbers,
\* null and arrays come back as they were; a property that is undefined is
\* left out and reads as undefined again
JsonSession(session) ==
    [ session EXCEPT
        !.maxTemp     = JsonNumber(@),
        !.minTemp     = JsonNumber(@),
        !.avgTemp     = Frac(JsonNumber(@.num), @.den),
        !.maxSmoke    = JsonNumber(@),
        !.minSmoke    = JsonNumber(@),
        !.avgSmoke    = Frac(JsonNumber(@.num), @.den),
        !.maxHumidity = JsonNumber(@),
        !.minHumidity = JsonNumber(@),
        !.avgHumidity = Frac(JsonNumber(@.num), @.den) ]

\* JSON.parse(JSON.stringify(list))
JsonRoundTrip(list) == [ i \in 1..Len(list) |-> JsonSession(list[i]) ]

\* A variant that saves the in-memory archive
SavedAfterClose_fromMemory(savedSessions, prev, completedSession) ==
    JsonRoundTrip(ArchivePush(prev, completedSession))

\* const savedSessions = JSON.parse(localStorage.getItem('fireAlertSessions') || '[]');
\* localStorage.setItem(..., [completedSession, ...savedSessions.slice(0, 9)])
SavedAfterClose(savedSessions, prev, completedSession) ==
    JsonRoundTrip(ArchivePush(savedSessions, completedSession))

\* A variant that adds the updated session beside the old one
ReplaceById_appends(prev, updatedSession) == Append(prev, updatedSession)

\* prev.map(session => session.id === updatedSession.id ? updatedSession : session)
ReplaceById(prev, updatedSession) ==
    [ i \in 1..Len(prev) |->
        IF prev[i].id = updatedSession.id THEN updatedSession ELSE prev[i] ]

\* prev.filter(session => session.id !== completedSession.id)
RemoveById(prev, id) == SelectSeq(prev, LAMBDA session : session.id # id)

-----------------------------------------------------------------------------
(* What the backend can answer to getFireAlertByDeviceId(deviceId) *)

ApiReadings(deviceId) ==
    [ deviceId  : {deviceId},
      latitude  : {30},
      longitude : {78},
      humidity  : {30},
      temp      : {20, 23},
      smoke     : {10},
      isFire    : BOOLEAN,
      timestamp : {0, 2500, 7500} ]

(* A scripted backend: the k-th answer is a function of the script.        *)
(*  scenario: the four readings of the spec's scenario, the gaps between   *)
(*            them and the unchanging smoke and humidity left open;        *)
(*  steady:   fire readings at a fixed polling gap, then one reading       *)
(*            without fire;                                                *)
(*  toggle:   fire and no fire alternate.                                  *)

ScenarioFeeds ==
    [ kind : {"scenario"}, g1 : {2500, 10000}, g2 : {1000, 2500, 4999},
      g3 : {2500, 10000}, smoke : {10, 40}, humidity : {30, 60} ]

SteadyFeeds == [ kind : {"steady"}, shape : {"up", "peak", "flat"}, gap : {2500, 10000} ]

ToggleFeeds == [ kind : {"toggle"}, gap : {2500, 10000} ]

Feeds == ScenarioFeeds \cup SteadyFeeds \cup ToggleFeeds

(*  pair:     a fire reading, then a second fire reading whose values and  *)
(*            timestamp lie around the thresholds of the admission rule;   *)
(*  short:    the first answers of a toggle script;                        *)
(*  raw:      a first answer in which numeric fields may be absent or not  *)
(*            numbers, then two complete answers.                          *)

PairFeeds ==
    [ kind : {"pair"}, temp : {18, 19, 20, 21, 22}, smoke : {4, 5, 10, 15, 16},
      humidity : {27, 28, 30, 32, 33}, timestamp : {0, 5000, 7500, 10000, 10001} ]

ShortFeeds == [ kind : {"short"}, gap : {2500, 10000} ]

RawFeeds ==
    [ kind : {"raw"}, temp : {20, Undefined, Malformed}, humidity : {30, Undefined},
      smoke : {10, Malformed}, latitude : {30, Undefined}, longitude : {78, Malformed},
      isFire : BOOLEAN, next : BOOLEAN ]

FeedLen(f) ==
    CASE f.kind = "scenario" -> 4
      [] f.kind = "steady"   -> SteadyLen
      [] f.kind = "toggle"   -> ToggleLen
      [] f.kind = "pair"     -> 2
      [] f.kind = "short"    -> ShortLen
      [] f.kind = "raw"      -> 3
      [] OTHER               -> 0

ScenarioAt(f, k) ==
    [ deviceId  |-> selectedSensorId,
      latitude  |-> 30,
      longitude |-> 78,
      humidity  |-> f.humidity,
      temp      |-> CASE k = 1 -> 20 [] k = 2 -> 45 [] k = 3 -> 50 [] OTHER -> 22,
      smoke     |-> f.smoke,
      isFire    |-> k \in {2, 3},
      timestamp |-> CASE k = 1 -> 0
                      [] k = 2 -> f.g1
                      [] k = 3 -> f.g1 + f.g2
                      [] OTHER -> f.g1 + f.g2 + f.g3 ]

SteadyAt(f, k) ==
    [ deviceId  |-> selectedSensorId,
      latitude  |-> 30,
      longitude |-> 78,
      humidity  |-> CASE f.shape = "up"   -> 30 + (k % 3)
                      [] f.shape = "peak" -> (IF k = 1 THEN 5 ELSE 30 + 3 * (k % 3))
                      [] OTHER            -> 30,
      temp      |-> CASE f.shape = "up"   -> 20 + k
                      [] f.shape = "peak" -> (IF k = 1 THEN 90 ELSE 20 + 2 * (k % 5))
                      [] OTHER            -> 20,
      smoke     |-> CASE f.shape = "up"   -> 10 + 3 * (k % 4)
                      [] f.shape = "peak" -> (IF k = 2 THEN 80 ELSE 10 + (k % 7))
                      [] OTHER            -> 10,
      isFire    |-> k < SteadyLen,
      timestamp |-> k * f.gap ]

ToggleAt(f, k) ==
    [ deviceId  |-> selectedSensorId,
      latitude  |-> 30,
      longitude |-> 78,
      humidity  |-> 30 + (k % 4),
      temp      |-> 40 + k,
      smoke     |-> 10 + 2 * (k % 5),
      isFire    |-> k % 2 = 1,
      timestamp |-> k * f.gap ]

PairAt(f, k) ==
    [ deviceId  |-> selectedSensorId,
      latitude  |-> 30,
      longitude |-> 78,
      humidity  |-> IF k = 1 THEN 30 ELSE f.humidity,
      temp      |-> IF k = 1 THEN 20 ELSE f.temp,
      smoke     |-> IF k = 1 THEN 10 ELSE f.smoke,
      isFire    |-> TRUE,
      timestamp |-> IF k = 1 THEN 5000 ELSE f.timestamp ]

RawAt(f, k) ==
    [ deviceId  |-> selectedSensorId,
      latitude  |-> IF k = 1 THEN f.latitude ELSE 30,
      longitude |-> IF k = 1 THEN f.longitude ELSE 78,
      humidity  |-> IF k = 1 THEN f.humidity ELSE 31,
      temp      |-> IF k = 1 THEN f.temp ELSE 25,
      smoke     |-> IF k = 1 THEN f.smoke ELSE 12,
      isFire    |-> CASE k = 1 -> f.isFire [] k = 2 -> f.next [] OTHER -> FALSE,
      timestamp |-> k * 7500 ]

FeedAt(f, k) ==
    CASE f.kind = "scenario" -> ScenarioAt(f, k)
      [] f.kind = "steady"   -> SteadyAt(f, k)
      [] f.kind = "pair"     -> PairAt(f, k)
      [] f.kind = "raw"      -> RawAt(f, k)
      [] OTHER               -> ToggleAt(f, k)

EffectsFlushed == ~routeDue /\ ~ingestDue /\ ~sessionDue

\* the scripts during which the user selects a device, follows a link or
\* reloads the page
EventsAllowed == feed.kind \in {"none", "toggle", "pair", "short"}

-----------------------------------------------------------------------------
(* Initial state: the page is opened for the first time (nothing stored)   *)
(* on a route whose parameter is one of sids; the useState initial values, *)
(* then the mount effects (the sensorId route effect, the load of the      *)
(* saved sessions) have run.                                               *)

InitWith(sids, feeds) ==
    /\ storage = << >>
    /\ sensorId \in sids
    /\ selectedSensorId = sensorId
    /\ isMonitoringFire = (sensorId # NoSensor)
    /\ queryData = [d \in Devices |-> NoData]
    /\ lastProcessedTimestamp = EmptyTimestamp
    /\ sensorReadings = << >>
    /\ currentSession = NoSession
    /\ activeSessions = << >>
    /\ completedSessions = storage
    /\ dateNow = 1
    /\ routeDue = FALSE
    /\ ingestDue = FALSE
    /\ sessionDue = FALSE
    /\ everMerged = << >>
    /\ fetches = 0
    /\ events = 0
    /\ feed \in feeds
    /\ answered = FALSE
    /\ reportsMounted = FALSE
    /\ sessions = << >>
    /\ selectedSession = NoSession
    /\ sessionToDelete = NullId
    /\ showDeleteDialog = FALSE
    /\ allSensorsData = NoList

Init == InitWith({NoSensor, "d1"}, {NoFeed})

-----------------------------------------------------------------------------
(* Actions                                                                 *)
(*                                                                         *)
(* The effects due after one commit all read that commit's state.  The     *)
(* session-tracking effect writes nothing the other two read, and the      *)
(* route effect's writes precede the ingest effect's queued updater, so    *)
(* running the due effects one at a time in the order session, route,      *)
(* ingest gives the states React produces.  An effect that sets state      *)
(* makes the effects depending on that state due again.                    *)

\* The per-device query resolves with r (refetchInterval: 10000).  react-query
\* keeps the old data object when the new one is structurally equal.
Resolve(r) ==
    /\ EffectsFlushed
    /\ selectedSensorId # NoSensor
    /\ queryData' = [queryData EXCEPT ![selectedSensorId] = r]
    /\ ingestDue' = (r # queryData[selectedSensorId])
    /\ fetches' = fetches + 1
    /\ answered' = TRUE
    /\ UNCHANGED << sensorId, selectedSensorId, isMonitoringFire,
                    lastProcessedTimestamp, sensorReadings, currentSession,
                    activeSessions, completedSessions, storage, dateNow, routeDue,
                    sessionDue, everMerged, events, feed, reportsVars, allSensorsData >>

FetchResolve ==
    /\ feed = NoFeed
    /\ fetches < MaxPolls
    /\ \E r \in ApiReadings(selectedSensorId) : Resolve(r)

\* The scripted backend answers the next fetch
FetchFeed ==
    /\ feed # NoFeed
    /\ fetches < FeedLen(feed)
    /\ Resolve(FeedAt(feed, fetches + 1))

\* useEffect(..., [apiResponse, selectedSensorId, isDuplicateReading, lastProcessedTimestamp])
IngestEffect ==
    /\ ingestDue
    /\ ~sessionDue
    /\ ~routeDue
    /\ IF /\ apiResponse # NoData
          /\ selectedSensorId # NoSensor
          /\ apiResponse.timestamp # lastProcessedTimestamp
       THEN LET newReading == NewReading(apiResponse)
            IN  /\ lastProcessedTimestamp' = apiResponse.timestamp
                /\ sensorReadings' = AddReading(sensorReadings, newReading)
                /\ ingestDue' = TRUE
                /\ sessionDue' = (sensorReadings' # sensorReadings)
       ELSE /\ ingestDue' = FALSE
            /\ UNCHANGED << lastProcessedTimestamp, sensorReadings, sessionDue >>
    /\ UNCHANGED << sensorId, selectedSensorId, isMonitoringFire, queryData,
                    currentSession, activeSessions, completedSessions, storage,
                    dateNow, routeDue, everMerged, fetches, events, feed, answered,
                    reportsVars, allSensorsData >>

\* useEffect(..., [sensorReadings, currentSession])
SessionEffect ==
    /\ sessionDue
    /\ IF Len(sensorReadings) > 0
       THEN LET plainReading == PlainReading(sensorReadings[1])
            IN  IF ShouldOpen(plainReading, currentSession)
                THEN LET newSession == NewSession(plainReading, dateNow)
                     IN  /\ currentSession' = newSession
                         /\ activeSessions' = Append(activeSessions, newSession)
                         /\ dateNow' = dateNow + 1
                         /\ everMerged' = <<plainReading>>
                         /\ UNCHANGED << completedSessions, storage >>
                ELSE IF ShouldUpdate(plainReading, currentSession)
                THEN IF Admitted(currentSession, plainReading)
                     THEN LET updatedSession == UpdatedSession(currentSession, plainReading)
                          IN  /\ currentSession' = updatedSession
                              /\ activeSessions' = ReplaceById(activeSessions, updatedSession)
                              /\ everMerged' = <<plainReading>> \o everMerged
                              /\ UNCHANGED << completedSessions, storage, dateNow >>
                     ELSE UNCHANGED << currentSession, activeSessions, completedSessions,
                                       storage, dateNow, everMerged >>
                ELSE IF ShouldClose(plainReading, currentSession)
                THEN LET completedSession == CompletedSession(currentSession, plainReading)
                     IN  /\ currentSession' = NoSession
                         /\ activeSessions' = RemoveById(activeSessions, completedSession.id)
                         /\ completedSessions' = ArchivePush(completedSessions, completedSession)
                         /\ storage' = SavedAfterClose(storage, completedSessions,
                                                       completedSession)
                         /\ everMerged' = << >>
                         /\ UNCHANGED dateNow
                ELSE UNCHANGED << currentSession, activeSessions, completedSessions,
                                  storage, dateNow, everMerged >>
       ELSE UNCHANGED << currentSession, activeSessions, completedSessions,
                         storage, dateNow, everMerged >>
    /\ sessionDue' = (currentSession' # currentSession)
    /\ UNCHANGED << sensorId, selectedSensorId, isMonitoringFire, queryData,
                    lastProcessedTimestamp, sensorReadings, routeDue, ingestDue,
                    fetches, events, feed, answered, reportsVars, allSensorsData >>

\* useEffect(..., [sensorId])
RouteEffect ==
    /\ routeDue
    /\ ~sessionDue
    /\ routeDue' = FALSE
    /\ IF sensorId # NoSensor
       THEN /\ selectedSensorId' = sensorId
            /\ isMonitoringFire' = TRUE
            /\ sensorReadings' = << >>
            /\ lastProcessedTimestamp' = EmptyTimestamp
            /\ sessionDue' = TRUE
            /\ ingestDue' = \/ ingestDue
                            \/ selectedSensorId' # selectedSensorId
                            \/ lastProcessedTimestamp' # lastProcessedTimestamp
            /\ answered' = FALSE
       ELSE UNCHANGED << selectedSensorId, isMonitoringFire, sensorReadings,
                         lastProcessedTimestamp, sessionDue, ingestDue, answered >>
    /\ UNCHANGED << sensorId, queryData, currentSession, activeSessions,
                    completedSessions, storage, dateNow, everMerged, fetches,
                    events, feed, reportsVars, allSensorsData >>

\* A variant that keeps the readings of the previous selection
handleManualSensorSelect_keepsHistory(deviceId) ==
    /\ EffectsFlushed
    /\ EventsAllowed
    /\ events < MaxEvents
    /\ events' = events + 1
    /\ selectedSensorId' = deviceId
    /\ isMonitoringFire' = FALSE
    /\ lastProcessedTimestamp' = EmptyTimestamp
    /\ sensorId' = deviceId
    /\ routeDue' = (sensorId' # sensorId)
    /\ sessionDue' = FALSE
    /\ ingestDue' = \/ selectedSensorId' # selectedSensorId
                    \/ lastProcessedTimestamp' # lastProcessedTimestamp
    /\ answered' = FALSE
    /\ UNCHANGED << sensorReadings, queryData, currentSession, activeSessions,
                    completedSessions, storage, dateNow, everMerged, fetches, feed,
                    reportsVars, allSensorsData >>

\* handleManualSensorSelect(deviceId); navigate() changes the route parameter
handleManualSensorSelect(deviceId) ==
    /\ EffectsFlushed
    /\ EventsAllowed
    /\ events < MaxEvents
    /\ events' = events + 1
    /\ selectedSensorId' = deviceId
    /\ isMonitoringFire' = FALSE
    /\ sensorReadings' = << >>
    /\ lastProcessedTimestamp' = EmptyTimestamp
    /\ sensorId' = deviceId
    /\ routeDue' = (sensorId' # sensorId)
    /\ sessionDue' = TRUE
    /\ ingestDue' = \/ selectedSensorId' # selectedSensorId
                    \/ lastProcessedTimestamp' # lastProcessedTimestamp
    /\ answered' = FALSE
    /\ UNCHANGED << queryData, currentSession, activeSessions, completedSessions,
                    storage, dateNow, everMerged, fetches, feed, reportsVars, allSensorsData >>

ManualSelect == \E deviceId \in Devices : handleManualSensorSelect(deviceId)

\* The URL changes to /monitoring/<deviceId> (a link, the back button)
Navigate ==
    /\ EffectsFlushed
    /\ EventsAllowed
    /\ events < MaxEvents
    /\ events' = events + 1
    /\ \E deviceId \in Devices \ {sensorId} : sensorId' = deviceId
    /\ routeDue' = TRUE
    /\ UNCHANGED << selectedSensorId, isMonitoringFire, queryData,
                    lastProcessedTimestamp, sensorReadings, currentSession,
                    activeSessions, completedSessions, storage, dateNow, ingestDue,
                    sessionDue, everMerged, fetches, feed, answered, reportsVars, allSensorsData >>

\* The page is loaded again on the same URL: the component state is rebuilt
\* and the archive is read back from localStorage
Remount ==
    /\ EffectsFlushed
    /\ EventsAllowed
    /\ events < MaxEvents
    /\ events' = events + 1
    /\ sensorId' = sensorId
    /\ selectedSensorId' = sensorId
    /\ isMonitoringFire' = (sensorId # NoSensor)
    /\ queryData' = [d \in Devices |-> NoData]
    /\ lastProcessedTimestamp' = EmptyTimestamp
    /\ sensorReadings' = << >>
    /\ currentSession' = NoSession
    /\ activeSessions' = << >>
    /\ completedSessions' = storage
    /\ everMerged' = << >>
    /\ answered' = FALSE
    /\ allSensorsData' = NoList
    /\ UNCHANGED << storage, dateNow, routeDue, ingestDue, sessionDue, fetches,
                    feed, reportsVars >>

Next ==
    \/ FetchResolve
    \/ IngestEffect
    \/ SessionEffect
    \/ RouteEffect
    \/ ManualSelect
    \/ Navigate
    \/ Remount

Spec == Init /\ [][Next]_vars

(* The page opened on /monitoring/d1 against a scripted backend *)

InitFeed == InitWith({"d1"}, Feeds)

NextFeed ==
    \/ FetchFeed
    \/ IngestEffect
    \/ SessionEffect
    \/ Remount

SpecFeed == InitFeed /\ [][NextFeed]_vars

(* The page opened on /monitoring/d1 against a toggle script, the user     *)
(* selecting devices, following links and reloading the page               *)

InitSelect == InitWith({"d1"}, ToggleFeeds)

NextSelect ==
    \/ FetchFeed
    \/ IngestEffect
    \/ SessionEffect
    \/ RouteEffect
    \/ ManualSelect
    \/ Navigate
    \/ Remount

SpecSelect == InitSelect /\ [][NextSelect]_vars

(* The page opened on /monitoring/d1 with a session begun, the next fire   *)
(* reading around the thresholds of the admission rule                     *)

InitAdmit == InitWith({"d1"}, PairFeeds)

NextAdmit ==
    \/ FetchFeed
    \/ IngestEffect
    \/ SessionEffect
    \/ RouteEffect
    \/ ManualSelect
    \/ Navigate

SpecAdmit == InitAdmit /\ [][NextAdmit]_vars

(* The page opened on /monitoring/d1 against answers with absent or        *)
(* non-numeric fields                                                      *)

InitRaw == InitWith({"d1"}, RawFeeds)

NextRaw ==
    \/ FetchFeed
    \/ IngestEffect
    \/ SessionEffect

SpecRaw == InitRaw /\ [][NextRaw]_vars

-----------------------------------------------------------------------------
(* The reports page (Reports.tsx), open in another tab of the same browser *)

\* useEffect(() => { setSessions(JSON.parse(localStorage.getItem(...) || '[]')) }, [])
\* at the (re)load of the page, after the useState initial values
ReportsMount ==
    /\ reportsMounted' = TRUE
    /\ sessions' = storage
    /\ selectedSession' = NoSession
    /\ sessionToDelete' = NullId
    /\ showDeleteDialog' = FALSE
    /\ UNCHANGED << liveVars, answered, allSensorsData >>

\* onClick={() => setSelectedSession(session)}; the dialog is modal
SelectSession ==
    /\ reportsMounted
    /\ ~showDeleteDialog
    /\ \E i \in 1..Len(sessions) : selectedSession' = sessions[i]
    /\ UNCHANGED << liveVars, answered, allSensorsData, reportsMounted, sessions, sessionToDelete,
                    showDeleteDialog >>

handleDeleteSession(sessionId) ==
    /\ reportsMounted
    /\ ~showDeleteDialog
    /\ sessionToDelete' = sessionId
    /\ showDeleteDialog' = TRUE
    /\ UNCHANGED << liveVars, answered, allSensorsData, reportsMounted, sessions, selectedSession >>

DeleteClick == \E i \in 1..Len(sessions) : handleDeleteSession(sessions[i].id)

\* wrong: the list is filtered and stored without a pending id too
confirmDelete_unguarded ==
    /\ reportsMounted
    /\ showDeleteDialog \/ sessionToDelete = NullId
    /\ LET updatedSessions == RemoveById(sessions, sessionToDelete)
       IN  /\ sessions' = updatedSessions
           /\ storage' = JsonRoundTrip(updatedSessions)
           /\ selectedSession' =
                  IF selectedSession # NoSession /\ selectedSession.id = sessionToDelete
                  THEN NoSession
                  ELSE selectedSession
           /\ sessionToDelete' = NullId
           /\ showDeleteDialog' = FALSE
    /\ UNCHANGED << sensorId, selectedSensorId, isMonitoringFire, queryData,
                    lastProcessedTimestamp, sensorReadings, currentSession,
                    activeSessions, completedSessions, dateNow, routeDue, ingestDue,
                    sessionDue, everMerged, fetches, events, feed, answered,
                    reportsMounted, allSensorsData >>

\* wrong: the selected session stays selected when it is the deleted one
confirmDelete_keepsSelected ==
    /\ reportsMounted
    /\ showDeleteDialog \/ sessionToDelete = NullId
    /\ IF sessionToDelete # NullId
       THEN LET updatedSessions == RemoveById(sessions, sessionToDelete)
            IN  /\ sessions' = updatedSessions
                /\ storage' = JsonRoundTrip(updatedSessions)
                /\ selectedSession' = selectedSession
                /\ sessionToDelete' = NullId
                /\ showDeleteDialog' = FALSE
       ELSE UNCHANGED << sessions, storage, selectedSession, sessionToDelete,
                         showDeleteDialog >>
    /\ UNCHANGED << sensorId, selectedSensorId, isMonitoringFire, queryData,
                    lastProcessedTimestamp, sensorReadings, currentSession,
                    activeSessions, completedSessions, dateNow, routeDue, ingestDue,
                    sessionDue, everMerged, fetches, events, feed, answered,
                    reportsMounted, allSensorsData >>

\* onClick of the dialog's Delete button: while the dialog is open, or once
\* more while the dialog just closed still shows (a second click)
confirmDelete ==
    /\ reportsMounted
    /\ showDeleteDialog \/ sessionToDelete = NullId
    /\ IF sessionToDelete # NullId
       THEN LET updatedSessions == RemoveById(sessions, sessionToDelete)
            IN  /\ sessions' = updatedSessions
                /\ storage' = JsonRoundTrip(updatedSessions)
                /\ selectedSession' =
                       IF selectedSession # NoSession /\ selectedSession.id = sessionToDelete
                       THEN NoSession
                       ELSE selectedSession
                /\ sessionToDelete' = NullId
                /\ showDeleteDialog' = FALSE
       ELSE UNCHANGED << sessions, storage, selectedSession, sessionToDelete,
                         showDeleteDialog >>
    /\ UNCHANGED << sensorId, selectedSensorId, isMonitoringFire, queryData,
                    lastProcessedTimestamp, sensorReadings, currentSession,
                    activeSessions, completedSessions, dateNow, routeDue, ingestDue,
                    sessionDue, everMerged, fetches, events, feed, answered,
                    reportsMounted, allSensorsData >>

cancelDelete ==
    /\ reportsMounted
    /\ showDeleteDialog
    /\ sessionToDelete' = NullId
    /\ showDeleteDialog' = FALSE
    /\ UNCHANGED << liveVars, answered, allSensorsData, reportsMounted, sessions, selectedSession >>

(* The live page on /monitoring/d1 and the reports page side by side *)

InitTabs == InitWith({"d1"}, ShortFeeds)

NextTabs ==
    \/ FetchFeed
    \/ IngestEffect
    \/ SessionEffect
    \/ ReportsMount
    \/ SelectSession
    \/ DeleteClick
    \/ confirmDelete
    \/ cancelDelete

SpecTabs == InitTabs /\ [][NextTabs]_vars

-----------------------------------------------------------------------------
(* The device list (useQuery ['allFireAlerts'], convertApiToSensorData)    *)
(*                                                                         *)
(* An answer of getFireAlerts is a record with a kind ("array", "object",  *)
(* "null") and, for an array, its items.  In a device record a string is   *)
(* the sequence of its characters, << >> standing for a string property    *)
(* that is absent or empty (both falsy); a flag is "true", "false" or      *)
(* "undefined"; a number is a number, Undefined or Malformed.              *)

EmptyArray == [kind |-> "array", items |-> << >>]

\* the falsy numbers and absent values
Truthy(v) == v \notin {Undefined, NaN, JsonNull, 0}

\* a || b
OrNumber(a, b) == IF Truthy(a) THEN a ELSE b
OrString(a, b) == IF a # << >> THEN a ELSE b
OrFlag(a, b) == IF a = "true" THEN a ELSE b

\* s.slice(-4)
SliceLast4(s) == IF Len(s) <= 4 THEN s ELSE SubSeq(s, Len(s) - 3, Len(s))

DevUnknown == << "D", "E", "V", "-", "u", "n", "k", "n", "o", "w", "n" >>

\* wrong: temperature is preferred to temp
ConvertDevice_prefersTemperature(device, now) ==
    LET deviceId ==
            OrString(device.deviceId,
                OrString(device.id,
                    IF device._id # << >>
                    THEN << "D", "E", "V", "-" >> \o SliceLast4(device._id)
                    ELSE DevUnknown))
        id == OrString(device._id, OrString(device.id, deviceId))
    IN  [ id        |-> id,
          deviceId  |-> deviceId,
          latitude  |-> OrNumber(device.latitude, 0),
          longitude |-> OrNumber(device.longitude, 0),
          humidity  |-> OrNumber(device.humidity, 0),
          temp      |-> OrNumber(device.temperature, OrNumber(device.temp, 0)),
          smoke     |-> OrNumber(device.smoke, 0),
          isFire    |-> OrFlag(device.isfire, OrFlag(device.isFire, "false")),
          timestamp |-> OrNumber(device.lastUpdate, OrNumber(device.timestamp, now)),
          name      |-> OrString(device.name,
                                 << "S", "e", "n", "s", "o", "r", " " >> \o deviceId),
          status    |-> IF OrFlag(device.isfire, device.isFire) = "true"
                        THEN "warning"
                        ELSE "active" ]

\* apiDevices.map(device => {...}): the body of the arrow function; now is
\* new Date().toISOString()
ConvertDevice(device, now) ==
    LET deviceId ==
            OrString(device.deviceId,
                OrString(device.id,
                    IF device._id # << >>
                    THEN << "D", "E", "V", "-" >> \o SliceLast4(device._id)
                    ELSE DevUnknown))
        id == OrString(device._id, OrString(device.id, deviceId))
    IN  [ id        |-> id,
          deviceId  |-> deviceId,
          latitude  |-> OrNumber(device.latitude, 0),
          longitude |-> OrNumber(device.longitude, 0),
          humidity  |-> OrNumber(device.humidity, 0),
          temp      |-> OrNumber(device.temp, OrNumber(device.temperature, 0)),
          smoke     |-> OrNumber(device.smoke, 0),
          isFire    |-> OrFlag(device.isfire, OrFlag(device.isFire, "false")),
          timestamp |-> OrNumber(device.lastUpdate, OrNumber(device.timestamp, now)),
          name      |-> OrString(device.name,
                                 << "S", "e", "n", "s", "o", "r", " " >> \o deviceId),
          status    |-> IF OrFlag(device.isfire, device.isFire) = "true"
                        THEN "warning"
                        ELSE "active" ]

convertApiToSensorData(apiDevices, now) ==
    IF apiDevices.kind # "array"
    THEN << >>
    ELSE [ i \in 1..Len(apiDevices.items) |-> ConvertDevice(apiDevices.items[i], now) ]

\* const availableSensors = convertApiToSensorData(allSensorsData || [])
availableSensors ==
    convertApiToSensorData(
        IF allSensorsData.kind \in {"undefined", "null"} THEN EmptyArray ELSE allSensorsData,
        dateNow)

(* What the backend can answer to getFireAlerts() *)

RawDevices ==
    [ deviceId    : { << >>, << "d", "1" >> },
      id          : { << >>, << "x", "9" >> },
      _id         : { << >>, << "a", "b", "c", "d", "e", "f" >>, << "a", "b" >> },
      name        : { << >> },
      latitude    : { Undefined },
      longitude   : { 78 },
      humidity    : { 30 },
      smoke       : { Malformed },
      temp        : { Undefined, 0, 20, Malformed },
      temperature : { Undefined, 0, 25 },
      isfire      : { "undefined", "false", "true" },
      isFire      : { "undefined", "false", "true" },
      lastUpdate  : { Undefined, 100 },
      timestamp   : { 200 } ]

\* the record the backend lists for a device of the live page
ListedDevice(deviceId, fire) ==
    [ deviceId    |-> IF deviceId = "d1" THEN << "d", "1" >> ELSE << "d", "2" >>,
      id          |-> << >>,
      _id         |-> << "a", "b", "c", "d", "e", "f" >>,
      name        |-> << >>,
      latitude    |-> 30,
      longitude   |-> 78,
      humidity    |-> 30,
      smoke       |-> 10,
      temp        |-> 20,
      temperature |-> Undefined,
      isfire      |-> "undefined",
      isFire      |-> IF fire THEN "true" ELSE "false",
      lastUpdate  |-> Undefined,
      timestamp   |-> 200 ]

\* every answer: not an array, the empty array, arrays of one device record
AllLists ==
    { [kind |-> "null"], [kind |-> "object"], EmptyArray }
        \cup { [kind |-> "array", items |-> << device >>] : device \in RawDevices }

\* the answers while a device is monitored
SomeLists ==
    { [kind |-> "null"],
      [kind |-> "array", items |-> << ListedDevice("d1", TRUE) >>],
      [kind |-> "array",
       items |-> << ListedDevice("d1", FALSE), ListedDevice("d2", TRUE) >>] }

\* wrong: a list answer also empties the short-term history
ListResolveFrom_resetsReadings(lists) ==
    /\ \E list \in lists : allSensorsData' = list
    /\ sensorReadings' = << >>
    /\ UNCHANGED << sensorId, selectedSensorId, isMonitoringFire, queryData,
                    lastProcessedTimestamp, currentSession, activeSessions,
                    completedSessions, storage, dateNow, routeDue, ingestDue,
                    sessionDue, everMerged, fetches, events, feed, answered,
                    reportsVars >>

\* The device-list query resolves (refetchInterval: 30000): the component
\* renders again; no dependency of an effect has changed
ListResolveFrom(lists) ==
    /\ \E list \in lists : allSensorsData' = list
    /\ UNCHANGED << liveVars, answered, reportsVars >>

ListResolve == ListResolveFrom(SomeLists)

ListResolveAny == ListResolveFrom(AllLists)

(* The page opened on /monitoring or /monitoring/d1 against a short        *)
(* script, the device list polled beside it                                *)

InitList == InitWith({NoSensor, "d1"}, ShortFeeds)

NextList ==
    \/ FetchFeed
    \/ IngestEffect
    \/ SessionEffect
    \/ RouteEffect
    \/ ManualSelect
    \/ Navigate
    \/ ListResolve

SpecList == InitList /\ [][NextList]_vars

(* The device list alone, over every shape of a device record *)

InitConvert == InitWith({NoSensor}, {NoFeed})

NextConvert == ListResolveAny

SpecConvert == InitConvert /\ [][NextConvert]_vars

-----------------------------------------------------------------------------
(* Vocabulary of the properties *)

SeqToSet(q) == { q[i] : i \in 1..Len(q) }

\* every session the page or the storage holds
AllSessions ==
    (IF currentSession = NoSession THEN {} ELSE {currentSession})
        \cup SeqToSet(activeSessions) \cup SeqToSet(completedSessions)
        \cup SeqToSet(storage)

SessionIds == { session.id : session \in AllSessions }

\* the session-tracking step is about to evaluate a reading
Evaluating == sessionDue /\ Len(sensorReadings) > 0

LatestReading == sensorReadings[1]

-----------------------------------------------------------------------------
(* C1: a session that did not exist before comes into being in a step if   *)
(* and only if that step is the session-tracking step evaluating a reading *)
(* with fire = true while currentSession is null; the new session is then  *)
(* the current one and is appended to the active set.                      *)

C1_OpensIffFireAndNoSession ==
    [][ /\ (SessionIds' \ SessionIds # {})
            <=> (Evaluating /\ LatestReading.isFire /\ currentSession = NoSession)
        /\ (SessionIds' \ SessionIds # {}) =>
              /\ currentSession' # NoSession
              /\ currentSession'.id \notin SessionIds
              /\ activeSessions' = Append(activeSessions, currentSession') ]_vars

C1_Witness ==
    /\ currentSession # NoSession
    /\ ~sessionDue
    /\ currentSession.readings = <<LatestReading>>
    /\ LatestReading.isFire
    /\ activeSessions = <<currentSession>>

(* C2: when the session-tracking step evaluates a reading with fire =      *)
(* false while a session is open, that step closes the session: it becomes *)
(* the first entry of the archive with endTime the reading's timestamp and *)
(* status 'completed', currentSession becomes null and the session leaves  *)
(* the active set.  Hence, once the effects are flushed, no session is     *)
(* open while the latest reading has fire = false.                         *)

C2_ClosesOnNoFire ==
    /\ [][ (Evaluating /\ ~LatestReading.isFire /\ currentSession # NoSession) =>
              \/ UNCHANGED vars
              \/ /\ currentSession' = NoSession
                 /\ \A i \in 1..Len(activeSessions') :
                        activeSessions'[i].id # currentSession.id
                 /\ Len(completedSessions') >= 1
                 /\ completedSessions'[1].id = currentSession.id
                 /\ completedSessions'[1].endTime = LatestReading.timestamp
                 /\ completedSessions'[1].status = "completed"
                 /\ storage'[1] = completedSessions'[1] ]_vars
    /\ [] ( (EffectsFlushed /\ Len(sensorReadings) > 0 /\ ~LatestReading.isFire)
                => currentSession = NoSession )

C2_Witness ==
    /\ EffectsFlushed
    /\ Len(sensorReadings) > 1
    /\ ~LatestReading.isFire
    /\ sensorReadings[2].isFire
    /\ currentSession = NoSession
    /\ Len(completedSessions) >= 1
    /\ completedSessions[1].endTime = LatestReading.timestamp

(* C3: the scenario {fire:false,temp:20}, {fire:true,temp:45},             *)
(* {fire:true,temp:50} (1..4999 ms after the previous one, smoke and       *)
(* humidity unchanged), {fire:false,temp:22}, from no session and an empty *)
(* history.  As stated: it ends with no active session and one completed   *)
(* session whose maxTemp is 45.                                            *)

ScenarioDone == feed.kind = "scenario" /\ fetches = FeedLen(feed) /\ EffectsFlushed

C3_Original_MaxTemp45 ==
    ScenarioDone =>
        /\ currentSession = NoSession
        /\ Len(completedSessions) = 1
        /\ completedSessions[1].maxTemp = 45

(* C3 as amended: it ends with no active session and one completed session *)
(* whose maxTemp is 50 and whose list holds the two fire readings: the     *)
(* third reading differs by more than 1 degree and is merged.              *)

C3_ScenarioMaxTemp50 ==
    ScenarioDone =>
        /\ currentSession = NoSession
        /\ activeSessions = << >>
        /\ Len(completedSessions) = 1
        /\ completedSessions[1].maxTemp = 50
        /\ completedSessions[1].minTemp = 45
        /\ Len(completedSessions[1].readings) = 2
        /\ completedSessions[1].readings[1].temp = 50
        /\ completedSessions[1].readings[2].temp = 45

C3_Witness == ScenarioDone /\ Len(completedSessions) = 1 /\ Len(sensorReadings) = 4

(* C4 as stated: the fire = false reading that closes a session is a       *)
(* member of the archived session's reading list.                          *)

C4_Original_ClosingReadingMerged ==
    \A session \in SeqToSet(completedSessions) :
        \E i \in 1..Len(session.readings) :
            /\ ~session.readings[i].isFire
            /\ session.readings[i].timestamp = session.endTime

(* C4 as amended: the closing reading is not merged: the step that closes  *)
(* a session archives it with the reading list it had, the closing reading *)
(* not in it, so a session opened by one reading and closed by the next    *)
(* is archived with one reading.                                           *)

C4_ClosingReadingNotMerged ==
    [][ (Evaluating /\ ~LatestReading.isFire /\ currentSession # NoSession) =>
            \/ UNCHANGED vars
            \/ /\ completedSessions'[1].readings = currentSession.readings
               /\ PlainReading(LatestReading) \notin SeqToSet(completedSessions'[1].readings)
               /\ (Len(everMerged) = 1 => Len(completedSessions'[1].readings) = 1) ]_vars

C4_Witness ==
    /\ EffectsFlushed
    /\ Len(sensorReadings) = 2
    /\ ~sensorReadings[1].isFire
    /\ sensorReadings[2].isFire
    /\ Len(completedSessions) = 1
    /\ completedSessions[1].endTime = sensorReadings[1].timestamp
    /\ completedSessions[1].readings = <<sensorReadings[2]>>
    /\ sensorReadings[1].timestamp - sensorReadings[2].timestamp < 5000
    /\ sensorReadings[1].temp = sensorReadings[2].temp

-----------------------------------------------------------------------------
(* Statistics of a session *)

Values(q, field) == { q[i][field] : i \in 1..Len(q) }
Greatest(S) == CHOOSE m \in S : \A v \in S : v <= m
Least(S) == CHOOSE m \in S : \A v \in S : m <= v

\* low <= avg <= high, avg the quotient num / den of a positive den
Between(low, avg, high) ==
    /\ avg.den > 0
    /\ low * avg.den <= avg.num
    /\ avg.num <= high * avg.den

\* avg is the arithmetic mean of field over q
IsMeanOf(avg, q, field) ==
    /\ avg.den > 0
    /\ Len(q) > 0
    /\ avg.num * Len(q) = SumOf(q, field) * avg.den

\* readings were merged into the current session and later dropped from its list
Evicted == currentSession # NoSession /\ Len(everMerged) > Len(currentSession.readings)

(* C5: in every reachable state, every session (current, active, archived, *)
(* stored) has min <= avg <= max for temperature, smoke and humidity.      *)

C6_AvgIsMeanOfRetained ==
    \A session \in AllSessions :
        /\ IsMeanOf(session.avgTemp, session.readings, "temp")
        /\ IsMeanOf(session.avgSmoke, session.readings, "smoke")
        /\ IsMeanOf(session.avgHumidity, session.readings, "humidity")

\* the mean over the retained readings differs from the mean over all merged ones
C6_Witness ==
    /\ Evicted
    /\ Len(currentSession.readings) = 50
    /\ ~IsMeanOf(currentSession.avgTemp, everMerged, "temp")

(* C7: the extrema of the current session are those of every reading ever  *)
(* merged into it, evicted ones included, and from one update of a session *)
(* to the next no max decreases and no min increases.                      *)

C7_ExtremaOverAllMerged ==
    /\ [] ( currentSession # NoSession =>
              /\ currentSession.maxTemp = Greatest(Values(everMerged, "temp"))
              /\ currentSession.minTemp = Least(Values(everMerged, "temp"))
              /\ currentSession.maxSmoke = Greatest(Values(everMerged, "smoke"))
              /\ currentSession.minSmoke = Least(Values(everMerged, "smoke"))
              /\ currentSession.maxHumidity = Greatest(Values(everMerged, "humidity"))
              /\ currentSession.minHumidity = Least(Values(everMerged, "humidity")) )
    /\ [][ ( /\ currentSession # NoSession
             /\ currentSession' # NoSession
             /\ currentSession'.id = currentSession.id ) =>
              /\ currentSession'.maxTemp >= currentSession.maxTemp
              /\ currentSession'.minTemp <= currentSession.minTemp
              /\ currentSession'.maxSmoke >= currentSession.maxSmoke
              /\ currentSession'.minSmoke <= currentSession.minSmoke
              /\ currentSession'.maxHumidity >= currentSession.maxHumidity
              /\ currentSession'.minHumidity <= currentSession.minHumidity ]_vars

\* the reading that set maxTemp and the one that set minHumidity were evicted
C7_Witness ==
    /\ Evicted
    /\ currentSession.maxTemp \notin Values(currentSession.readings, "temp")
    /\ currentSession.minHumidity \notin Values(currentSession.readings, "humidity")

(* C8: in every reachable state every session's reading list has at most   *)
(* 50 entries, newest first: the list of the current session is the 50     *)
(* most recently merged readings, latest first (so a merge into a full     *)
(* list drops the oldest), and timestamps that grow with every fetch       *)
(* decrease along every list.                                              *)

C8_ReadingListCap ==
    /\ \A session \in AllSessions :
          /\ Len(session.readings) <= 50
          /\ \A i \in 1..Len(session.readings) : \A j \in 1..Len(session.readings) :
                i < j => session.readings[i].timestamp > session.readings[j].timestamp
    /\ currentSession # NoSession =>
          currentSession.readings = Slice0(everMerged, 50)

C8_Witness ==
    /\ Evicted
    /\ Len(currentSession.readings) = 50
    /\ Len(everMerged) = 52

(* C9: in every reachable state the in-memory archive and the archive      *)
(* stored under 'fireAlertSessions' hold at most 10 sessions, and a        *)
(* closure when 10 are held keeps the 9 newest behind the closed session,  *)
(* dropping the oldest.                                                    *)

C9_ArchiveCap ==
    /\ [] ( Len(completedSessions) <= 10 /\ Len(storage) <= 10 )
    /\ [][ ( /\ Evaluating /\ ~LatestReading.isFire /\ currentSession # NoSession
             /\ Len(completedSessions) = 10 /\ Len(storage) = 10 ) =>
              \/ UNCHANGED vars
              \/ /\ Len(completedSessions') = 10
                 /\ completedSessions'[1].id = currentSession.id
                 /\ \A i \in 1..9 : completedSessions'[i + 1] = completedSessions[i]
                 /\ completedSessions[10] \notin SeqToSet(completedSessions')
                 /\ Len(storage') = 10
                 /\ storage'[1].id = currentSession.id
                 /\ \A i \in 1..9 : storage'[i + 1] = storage[i]
                 /\ storage[10] \notin SeqToSet(storage') ]_vars

\* the eleventh closure has happened
C9_Witness ==
    /\ Len(completedSessions) = 10
    /\ Len(storage) = 10
    /\ completedSessions[1].id = 11
    /\ completedSessions[10].id = 2

(* C10: in every reachable state the short-term history holds at most 20   *)
(* readings, and a step that accepts a reading puts it first and keeps the *)
(* 19 newest of the others behind it in their order, dropping the oldest   *)
(* when 20 were held.                                                      *)

C10_HistoryCap ==
    /\ [] ( Len(sensorReadings) <= 20 )
    /\ [][ (sensorReadings' # sensorReadings /\ sensorReadings' # << >>) =>
              /\ sensorReadings'[1] = NewReading(apiResponse)
              /\ Len(sensorReadings') = MathMin(Len(sensorReadings) + 1, 20)
              /\ \A i \in 2..Len(sensorReadings') :
                    sensorReadings'[i] = sensorReadings[i - 1] ]_vars

C10_Witness ==
    /\ Len(sensorReadings) = 20
    /\ fetches = 22
    /\ EffectsFlushed
    /\ sensorReadings[20].timestamp = 3 * feed.gap

-----------------------------------------------------------------------------
\* two readings are the same observation
SameObservation(a, b) ==
    /\ a.timestamp = b.timestamp
    /\ a.temp = b.temp
    /\ a.humidity = b.humidity
    /\ a.smoke = b.smoke

\* the ingest step is about to be offered a candidate that some reading of
\* the short-term history equals on the four fields
DuplicateOffered ==
    /\ ingestDue
    /\ ~sessionDue
    /\ ~routeDue
    /\ apiResponse # NoData
    /\ \E i \in 1..Len(sensorReadings) : SameObservation(sensorReadings[i], apiResponse)

(* C11: a step that is offered a candidate reading whose (timestamp, temp, *)
(* humidity, smoke) equals that of a reading already in the short-term     *)
(* history leaves the history as it is, makes no session evaluation due    *)
(* and leaves the current session, the active set and both archives as     *)
(* they are, whatever the candidate's fire flag.                           *)

C11_DuplicateDiscarded ==
    [][ DuplicateOffered =>
          /\ sensorReadings' = sensorReadings
          /\ ~sessionDue'
          /\ UNCHANGED << currentSession, activeSessions, completedSessions,
                          storage >> ]_vars

\* a candidate that passed the timestamp gate was discarded for an older
\* entry of the history with the other fire flag
C11_Witness ==
    /\ EffectsFlushed
    /\ apiResponse # NoData
    /\ lastProcessedTimestamp = apiResponse.timestamp
    /\ sensorReadings[1].timestamp # apiResponse.timestamp
    /\ \E i \in 2..Len(sensorReadings) :
          /\ SameObservation(sensorReadings[i], apiResponse)
          /\ sensorReadings[i].isFire # apiResponse.isFire

-----------------------------------------------------------------------------
\* the reading most recently merged into the current session
LastMerged == currentSession.readings[1]

\* the session-tracking step is about to evaluate a fire reading while a
\* session is open
UpdateOffered == Evaluating /\ LatestReading.isFire /\ currentSession # NoSession

\* the step merges the reading it evaluates into the current session
MergesLatest ==
    /\ currentSession' # NoSession
    /\ currentSession'.id = currentSession.id
    /\ currentSession'.readings =
          <<PlainReading(LatestReading)>> \o Slice0(currentSession.readings, 49)
    /\ activeSessions' = <<currentSession'>>

\* the step leaves the current session, the active set and both archives alone
LeavesSessions ==
    UNCHANGED << currentSession, activeSessions, completedSessions, storage >>

(* C12: while a session is open, the session-tracking step that evaluates  *)
(* a fire reading whose timestamp is 5000 ms or more after that of the     *)
(* most recently merged reading merges it, whatever its values (a          *)
(* difference of exactly 5000 ms included).                                *)

C12_MergedAtFiveSeconds ==
    [][ ( /\ UpdateOffered
          /\ GetTime(LatestReading.timestamp) - GetTime(LastMerged.timestamp) >= 5000 )
        => MergesLatest ]_vars

\* |a - b| of two numbers
Distance(a, b) == IF a >= b THEN a - b ELSE b - a

\* the reading differs from the most recently merged one by more than 1
\* degree, more than 5 units of smoke or more than 2 points of humidity
DiffersSignificantly(reading, merged) ==
    \/ Distance(reading.temp, merged.temp) > 1
    \/ Distance(reading.smoke, merged.smoke) > 5
    \/ Distance(reading.humidity, merged.humidity) > 2

(* C13: while a session is open, the session-tracking step that evaluates  *)
(* a fire reading differing from the most recently merged reading by more  *)
(* than 1 in temperature, more than 5 in smoke or more than 2 in humidity  *)
(* merges it, whatever the difference of the timestamps (zero and negative *)
(* included); a reading within 1, 5 and 2 of it (these differences         *)
(* included) that comes less than 5000 ms after it is not merged.          *)

C13_SignificantChangeAdmits ==
    [][ UpdateOffered =>
          /\ DiffersSignificantly(LatestReading, LastMerged) => MergesLatest
          /\ ( /\ ~DiffersSignificantly(LatestReading, LastMerged)
               /\ GetTime(LatestReading.timestamp) - GetTime(LastMerged.timestamp) < 5000 )
             => LeavesSessions ]_vars

\* a reading with the timestamp of the last merged one was merged for its
\* smoke alone, its temperature and humidity being exactly 1 and 2 away
C13_Witness ==
    /\ currentSession # NoSession
    /\ Len(currentSession.readings) = 2
    /\ currentSession.readings[1].timestamp = currentSession.readings[2].timestamp
    /\ Distance(currentSession.readings[1].smoke, currentSession.readings[2].smoke) = 6
    /\ Distance(currentSession.readings[1].temp, currentSession.readings[2].temp) = 1
    /\ Distance(currentSession.readings[1].humidity, currentSession.readings[2].humidity) = 2

\* the reading comes less than 5000 ms after the most recently merged one
\* and within 1 degree, 5 units of smoke and 2 points of humidity of it
Throttled(reading, merged) ==
    /\ GetTime(reading.timestamp) - GetTime(merged.timestamp) < 5000
    /\ ~DiffersSignificantly(reading, merged)

\* the ingest step is about to be offered a candidate that passes the
\* timestamp gate and equals no reading of the short-term history
FreshOffered ==
    /\ ingestDue
    /\ ~sessionDue
    /\ ~routeDue
    /\ apiResponse # NoData
    /\ apiResponse.timestamp # lastProcessedTimestamp
    /\ \A i \in 1..Len(sensorReadings) : ~SameObservation(sensorReadings[i], apiResponse)

(* C14: while a session is open, a fire reading that is no duplicate and   *)
(* fails the admission rule is put first in the short-term history by the  *)
(* ingest step, and the session-tracking step that then evaluates it       *)
(* leaves the history, the current session, the active set and both        *)
(* archives as they are.                                                   *)

-----------------------------------------------------------------------------
\* the step is the session-tracking step closing the current session
Closes == Evaluating /\ currentSession # NoSession /\ currentSession' = NoSession

\* the step is the reports page confirming a deletion
ConfirmsDelete ==
    /\ reportsMounted
    /\ showDeleteDialog
    /\ ~showDeleteDialog'
    /\ sessions' # sessions
    /\ storage' = sessions'

(* C15 as stated: after every closure the archive stored under             *)
(* 'fireAlertSessions' equals the in-memory archive, same sessions in the  *)
(* same order.                                                             *)

C15_Original_PersistedEqualsMemory ==
    [][ Closes => storage' = completedSessions' ]_vars

(* C15: a closure puts the closed session first in the stored archive and  *)
(* in the in-memory archive, each keeping behind it the first 9 sessions   *)
(* it held before; the stored archive is what JSON keeps of the in-memory  *)
(* one after the closure if it was so before it, which a deletion          *)
(* confirmed on a reports page since the live page loaded the archive      *)
(* undoes.  The stored archive changes in no step of the live page other   *)
(* than a closure.                                                         *)

C15_ClosurePersists ==
    [][ /\ Closes =>
              /\ completedSessions'[1].id = currentSession.id
              /\ completedSessions' =
                    <<completedSessions'[1]>> \o Slice0(completedSessions, 9)
              /\ storage' =
                    JsonRoundTrip(<<completedSessions'[1]>> \o Slice0(storage, 9))
              /\ (storage = JsonRoundTrip(completedSessions))
                    => (storage' = JsonRoundTrip(completedSessions'))
        /\ (storage' # storage) => (Closes \/ ConfirmsDelete) ]_vars

\* a closure after a deletion on the reports page: the closed session heads
\* both archives, the in-memory one still holds the deleted session
C15_Witness ==
    /\ EffectsFlushed
    /\ currentSession = NoSession
    /\ Len(completedSessions) = 2
    /\ storage = <<completedSessions[1]>>
    /\ fetches = 4

-----------------------------------------------------------------------------
\* the sessions of the in-memory archive and of the stored one
Archived == SeqToSet(completedSessions) \cup SeqToSet(storage)

\* the ids of the sessions the live page holds as active
ActiveIds ==
    { session.id : session \in
        (IF currentSession = NoSession THEN {} ELSE {currentSession})
            \cup SeqToSet(activeSessions) }

\* every session of the archive q is in q after the step as it was, unless
\* the step is a closure and it was the tenth, or the reports page
\* confirmed a deletion
StaysArchived(q, qAfter, deletion) ==
    \A i \in 1..Len(q) :
        \/ q[i] \in SeqToSet(qAfter)
        \/ Closes /\ i = 10
        \/ deletion

(* C16: every session of the in-memory or the stored archive has an        *)
(* endTime that is not null and status 'completed', is not the current     *)
(* session and is not in the active set, and shares its id with no other   *)
(* archived session; a step (a fetch, a reading, a selection, a            *)
(* navigation, a reload) leaves every field and the reading list of it as  *)
(* they are and keeps it in the archive, unless the step is a closure that *)
(* finds it tenth in the archive or a deletion confirmed on the reports    *)
(* page.                                                                   *)

C16_ArchivedFrozen ==
    /\ [] ( /\ \A session \in Archived :
                  /\ session.endTime # NullTime
                  /\ session.status = "completed"
                  /\ session.id \notin ActiveIds
            /\ \A s \in Archived : \A t \in Archived : s.id = t.id => s = t )
    /\ [][ /\ StaysArchived(completedSessions, completedSessions', FALSE)
           /\ StaysArchived(storage, storage', ConfirmsDelete) ]_vars

\* after a device selection and the eleventh closure: the first session
\* closed has left the archive, the second is its tenth entry
C16_Witness ==
    /\ events = 1
    /\ selectedSensorId = "d2"
    /\ currentSession = NoSession
    /\ Len(completedSessions) = 10
    /\ completedSessions[10].id = 2
    /\ storage = completedSessions

-----------------------------------------------------------------------------
(* C17: while no session is open, the ingest step offered a reading        *)
(* without fire and the session-tracking step evaluating one leave         *)
(* currentSession null and the active set, the in-memory archive and the   *)
(* stored archive as they are; the short-term history alone may change.    *)

C17_CalmReadingNoOp ==
    [][ /\ ( /\ ingestDue /\ ~sessionDue /\ ~routeDue
             /\ apiResponse # NoData
             /\ ~apiResponse.isFire
             /\ currentSession = NoSession )
           => (currentSession' = NoSession /\ LeavesSessions)
        /\ (Evaluating /\ ~LatestReading.isFire /\ currentSession = NoSession)
           => /\ currentSession' = NoSession
              /\ LeavesSessions
              /\ sensorReadings' = sensorReadings ]_vars

\* two readings without fire were observed: the history holds them, nothing
\* else came into being
C17_Witness ==
    /\ EffectsFlushed
    /\ Len(sensorReadings) = 2
    /\ ~sensorReadings[1].isFire
    /\ ~sensorReadings[2].isFire
    /\ currentSession = NoSession
    /\ activeSessions = << >>
    /\ completedSessions = << >>
    /\ storage = << >>

-----------------------------------------------------------------------------
(* C18: in every reachable state the active set is empty when              *)
(* currentSession is null and otherwise holds currentSession and nothing   *)
(* else; it never holds two sessions.                                      *)

C18_OneActiveSession ==
    /\ Len(activeSessions) <= 1
    /\ (activeSessions = << >>) <=> (currentSession = NoSession)
    /\ currentSession # NoSession => activeSessions = <<currentSession>>

\* the session opened on one device has merged a reading after another
\* device was selected, and is the one entry of the active set
C18_Witness ==
    /\ events = 1
    /\ EffectsFlushed
    /\ currentSession # NoSession
    /\ Len(currentSession.readings) = 2
    /\ selectedSensorId # currentSession.deviceId
    /\ activeSessions = <<currentSession>>

-----------------------------------------------------------------------------
\* the step opens monitoring for a device: the route effect on a route with
\* a sensor id, or the manual selector or a load of the page
OpensMonitoring ==
    \/ routeDue /\ ~sessionDue /\ sensorId # NoSensor
    \/ EffectsFlushed /\ events' = events + 1 /\ sensorId' = selectedSensorId'

\* a session of the device is in the archive
HasCompleted(deviceId) ==
    \E session \in SeqToSet(completedSessions) : session.deviceId = deviceId

(* C19 as stated: once monitoring has been opened again for a device with  *)
(* a completed session and the page has settled, no answer having been     *)
(* fetched since, the short-term history is empty and no session is        *)
(* active.                                                                 *)

C19_Original_ReopenStartsEmpty ==
    (EffectsFlushed /\ ~answered /\ HasCompleted(selectedSensorId))
        => (sensorReadings = << >> /\ currentSession = NoSession)

(* C19: the step that opens monitoring again for a device with a completed *)
(* session empties the short-term history and forgets the last processed   *)
(* timestamp, leaves both archives as they are and leaves the current      *)
(* session as it is or, at a load of the page, null; no archived session   *)
(* is ever the current session or in the active set.  Until the next       *)
(* answer is fetched the history then holds nothing or the one reading     *)
(* made of the answer the page still holds for the device, ingested again. *)

C19_ReopenClearsThenReingests ==
    /\ [][ (OpensMonitoring /\ HasCompleted(selectedSensorId')) =>
              /\ sensorReadings' = << >>
              /\ lastProcessedTimestamp' = EmptyTimestamp
              /\ completedSessions' = completedSessions
              /\ storage' = storage
              /\ currentSession' \in {currentSession, NoSession}
              /\ currentSession = NoSession => currentSession' = NoSession ]_vars
    /\ [] ( /\ \A session \in Archived : session.id \notin ActiveIds
            /\ ~answered =>
                  \/ sensorReadings = << >>
                  \/ /\ apiResponse # NoData
                     /\ sensorReadings = <<NewReading(apiResponse)>> )

\* the device of a completed session was selected again: the history holds
\* the closing reading once more, no session is open, the session is archived
C19_Witness ==
    /\ EffectsFlushed
    /\ ~answered
    /\ events = 1
    /\ currentSession = NoSession
    /\ Len(completedSessions) = 1
    /\ completedSessions[1].deviceId = selectedSensorId
    /\ apiResponse # NoData
    /\ sensorReadings = <<NewReading(apiResponse)>>
    /\ sensorReadings[1].timestamp = completedSessions[1].endTime

-----------------------------------------------------------------------------
\* every reading the page holds: in the short-term history or in a session
HeldReadings ==
    SeqToSet(sensorReadings)
        \cup UNION { SeqToSet(session.readings) : session \in AllSessions }

(* C20: in every reachable state every reading of the short-term history   *)
(* and of every session has a number in each of temp, humidity, smoke,     *)
(* latitude and longitude, whatever fields the answers of the backend      *)
(* lacked or held as something that is not a number.                       *)

C20_ReadingsNumeric ==
    \A reading \in HeldReadings :
        /\ IsNumber(reading.temp)
        /\ IsNumber(reading.humidity)
        /\ IsNumber(reading.smoke)
        /\ IsNumber(reading.latitude)
        /\ IsNumber(reading.longitude)

-----------------------------------------------------------------------------
\* the average avg is the number v
IsValue(avg, v) == avg.num = v * avg.den

(* C21: a step that opens a session (currentSession goes from null to a    *)
(* session) is the session-tracking step evaluating the latest reading r,  *)
(* and the session has startTime = r.timestamp, endTime null, status       *)
(* 'active', deviceId = r.deviceId, the reading list [r], and the minimum, *)
(* maximum and average of temperature, smoke and humidity equal to r's     *)
(* value of that field.                                                    *)

C21_SessionSeeded ==
    [][ (currentSession = NoSession /\ currentSession' # NoSession) =>
          /\ Evaluating
          /\ LET r == PlainReading(LatestReading)
                 s == currentSession'
             IN  /\ s.startTime = r.timestamp
                 /\ s.endTime = NullTime
                 /\ s.status = "active"
                 /\ s.deviceId = r.deviceId
                 /\ s.readings = <<r>>
                 /\ s.maxTemp = r.temp /\ s.minTemp = r.temp
                 /\ IsValue(s.avgTemp, r.temp)
                 /\ s.maxSmoke = r.smoke /\ s.minSmoke = r.smoke
                 /\ IsValue(s.avgSmoke, r.smoke)
                 /\ s.maxHumidity = r.humidity /\ s.minHumidity = r.humidity
                 /\ IsValue(s.avgHumidity, r.humidity) ]_vars

\* a session opened by the third reading fetched, after two without fire
C21_Witness ==
    /\ EffectsFlushed
    /\ Len(sensorReadings) = 3
    /\ currentSession # NoSession
    /\ currentSession.startTime = sensorReadings[1].timestamp
    /\ currentSession.readings = <<PlainReading(sensorReadings[1])>>
    /\ currentSession.minTemp = 23
    /\ currentSession.maxTemp = 23
    /\ completedSessions = << >>

-----------------------------------------------------------------------------
\* C22: a device-list answer, arriving at any point, leaves the short-term
\* history, the current session, the active set, the in-memory archive and
\* the persisted archive as they were; and a per-device fetch is issued only
\* while a sensor is selected.
C22_ListPollIndependent ==
    [][ /\ allSensorsData' # allSensorsData =>
              UNCHANGED << sensorReadings, currentSession, activeSessions,
                           completedSessions, storage >>
        /\ fetches' # fetches => selectedSensorId # NoSensor ]_vars

\* a device list has arrived while a session is open and one is archived
C22_Witness ==
    /\ allSensorsData.kind = "array"
    /\ currentSession # NoSession
    /\ Len(sensorReadings) > 0
    /\ Len(completedSessions) > 0
    /\ Len(storage) > 0
    /\ fetches > 0

-----------------------------------------------------------------------------
(* Vocabulary of the device list *)

\* the last n characters of s, or all of s when it is shorter
LastChars(s, n) ==
    LET k == IF Len(s) < n THEN Len(s) ELSE n
    IN  [ i \in 1..k |-> s[Len(s) - k + i] ]

\* the identifier a device record is listed under
ListedId(device) ==
    CASE device.deviceId # << >> -> device.deviceId
      [] device.deviceId = << >> /\ device.id # << >> -> device.id
      [] device.deviceId = << >> /\ device.id = << >> /\ device._id # << >> ->
            << "D", "E", "V", "-" >> \o LastChars(device._id, 4)
      [] OTHER -> << "D", "E", "V", "-", "u", "n", "k", "n", "o", "w", "n" >>

\* the identifiers and the fire flag of every listed record are normalised,
\* and an answer that is no array lists nothing
NormalisesIdsAndFlags ==
    /\ allSensorsData.kind # "array" => availableSensors = << >>
    /\ allSensorsData.kind = "array" =>
        /\ Len(availableSensors) = Len(allSensorsData.items)
        /\ \A i \in 1..Len(allSensorsData.items) :
              LET device == allSensorsData.items[i]
                  sensor == availableSensors[i]
              IN  /\ sensor.deviceId = ListedId(device)
                  /\ sensor.isFire = "true" <=>
                        (device.isfire = "true" \/ device.isFire = "true")
                  /\ sensor.isFire \in {"true", "false"}

\* every listed record satisfies P(device, sensor)
EveryListed(P(_, _)) ==
    allSensorsData.kind = "array" =>
        \A i \in 1..Len(allSensorsData.items) :
            P(allSensorsData.items[i], availableSensors[i])

TempWhenPresent(device, sensor) ==
    sensor.temp = IF device.temp # Undefined THEN device.temp
                  ELSE IF device.temperature # Undefined THEN device.temperature
                  ELSE 0

TempWhenNonZero(device, sensor) ==
    sensor.temp = IF device.temp \notin {Undefined, 0} THEN device.temp
                  ELSE IF device.temperature \notin {Undefined, 0} THEN device.temperature
                  ELSE 0

\* C23 as stated: the listed temp is the record's temp whenever that field
\* is present, otherwise its temperature, otherwise 0 (with the identifier
\* fallbacks, the fire flag and the empty list for a non-array answer).
C23_Original_TempWhenPresent ==
    NormalisesIdsAndFlags /\ EveryListed(TempWhenPresent)

\* C23: the listed temp is the record's temp when that field is present and
\* not zero, otherwise its temperature when that is present and not zero,
\* otherwise 0; isFire is true iff isfire or isFire is true; a missing
\* deviceId falls back to id, then to 'DEV-' and the last four characters of
\* _id, then to 'DEV-unknown'; a null or non-array answer lists nothing.
C23_NormalisesVariants ==
    NormalisesIdsAndFlags /\ EveryListed(TempWhenNonZero)

\* a record with temp 0 beside a temperature, identified only by its _id
C23_Witness ==
    /\ allSensorsData.kind = "array"
    /\ Len(allSensorsData.items) = 1
    /\ allSensorsData.items[1].temp = 0
    /\ allSensorsData.items[1].temperature = 25
    /\ allSensorsData.items[1].deviceId = << >>
    /\ allSensorsData.items[1].id = << >>
    /\ Len(allSensorsData.items[1]._id) > 4
    /\ allSensorsData.items[1].isfire = "true"
    /\ availableSensors[1].temp = 25
    /\ availableSensors[1].deviceId = << "D", "E", "V", "-", "c", "d", "e", "f" >>

-----------------------------------------------------------------------------
\* the list q without the sessions whose id is id, the others in their order
RECURSIVE Without(_, _)
Without(q, id) ==
    IF q = << >> THEN << >>
    ELSE IF Head(q).id = id THEN Without(Tail(q), id)
    ELSE << Head(q) >> \o Without(Tail(q), id)

\* C24: a confirmDelete with a pending id leaves in the reports list exactly
\* the sessions with another id, in their order, stores that list as the
\* persisted archive, clears the selected session if and only if it had the
\* pending id, resets the pending id and closes the dialog.
C24_ConfirmDeletes ==
    [][ confirmDelete /\ sessionToDelete # NullId =>
          /\ sessions' = Without(sessions, sessionToDelete)
          /\ \A i \in 1..Len(sessions') : sessions'[i].id # sessionToDelete
          /\ storage' = sessions'
          /\ IF selectedSession # NoSession /\ selectedSession.id = sessionToDelete
             THEN selectedSession' = NoSession
             ELSE selectedSession' = selectedSession
          /\ sessionToDelete' = NullId
          /\ ~showDeleteDialog' ]_vars

\* one of two listed sessions has been deleted, the selected other one stays
C24_Witness ==
    /\ reportsMounted
    /\ Len(completedSessions) = 2
    /\ Len(sessions) = 1
    /\ storage = sessions
    /\ selectedSession # NoSession
    /\ selectedSession = sessions[1]
    /\ sessionToDelete = NullId
    /\ ~showDeleteDialog

-----------------------------------------------------------------------------
\* C25: opening the delete dialog and cancelling it leave the reports list,
\* the selected session and the persisted archive as they were; a
\* confirmDelete without a pending id changes nothing at all; after
\* cancelDelete no id is pending and the dialog is closed.
C25_DeletionNeedsConfirmation ==
    [][ /\ DeleteClick \/ cancelDelete =>
              UNCHANGED << sessions, selectedSession, storage >>
        /\ confirmDelete /\ sessionToDelete = NullId => UNCHANGED vars
        /\ cancelDelete => sessionToDelete' = NullId /\ ~showDeleteDialog' ]_vars

\* the dialog is open on the selected one of two sessions, all of them still
\* listed and stored
C25_Witness ==
    /\ reportsMounted
    /\ showDeleteDialog
    /\ sessionToDelete # NullId
    /\ selectedSession # NoSession
    /\ selectedSession.id = sessionToDelete
    /\ Len(sessions) = 2
    /\ storage = sessions

-----------------------------------------------------------------------------
\* the session-tracking step has dealt with the latest reading: it heads the
\* current session, or there is no current session and it reports no fire
Settled ==
    /\ Len(sensorReadings) > 0
    /\ IF currentSession # NoSession
       THEN currentSession.readings[1] = PlainReading(LatestReading)
       ELSE ~LatestReading.isFire

\* C26: a session-tracking step that opens, updates or closes a session
\* leaves the latest reading dealt with, and a session-tracking step that
\* runs again on a reading already dealt with changes neither the current
\* session nor the active set nor the in-memory or the persisted archive.
C26_OneTransitionPerReading ==
    [][ /\ SessionEffect /\ currentSession' # currentSession => Settled'
        /\ SessionEffect /\ Settled =>
              UNCHANGED << currentSession, activeSessions, completedSessions,
                           storage >> ]_vars

\* the step has run again after a merge into the current session
C26_Witness ==
    /\ ~sessionDue
    /\ Settled
    /\ currentSession # NoSession
    /\ Len(currentSession.readings) >= 2
    /\ Len(activeSessions) = 1

-----------------------------------------------------------------------------
\* C27: in every reachable state every reading in the list of every session,
\* active or archived, has the deviceId of the session, also after another
\* device has been selected while the session was open.
C27_ReadingsOfOneDevice ==
    \A session \in AllSessions :
        \A i \in 1..Len(session.readings) :
            session.readings[i].deviceId = session.deviceId

-----------------------------------------------------------------------------
\* C28: in every reachable state every reading in the list of every session,
\* active or archived, reports fire; the reading without fire that closes a
\* session is not a member of it.
C28_SessionReadingsReportFire ==
    \A session \in AllSessions :
        \A i \in 1..Len(session.readings) : session.readings[i].isFire

\* a session of two readings has been closed by a reading without fire,
\* which heads the history and is in no session
C28_Witness ==
    /\ EffectsFlushed
    /\ Len(completedSessions) > 0
    /\ Len(completedSessions[1].readings) >= 2
    /\ Len(sensorReadings) > 0
    /\ ~LatestReading.isFire
    /\ completedSessions[1].endTime = LatestReading.timestamp

-----------------------------------------------------------------------------
\* the ingest step is about to be offered a candidate for the selected
\* device that differs from every entry of the short-term history in at
\* least one of timestamp, temp, humidity and smoke
NovelOffered ==
    /\ ingestDue
    /\ ~sessionDue
    /\ ~routeDue
    /\ apiResponse # NoData
    /\ selectedSensorId # NoSensor
    /\ \A i \in 1..Len(sensorReadings) : ~SameObservation(sensorReadings[i], apiResponse)

\* C29: a step that is offered a candidate differing from every entry of the
\* short-term history in at least one of the four fields puts it first in
\* the history and makes the session evaluation due, also when its
\* timestamp is that of the reading processed last.
C29_NovelReadingAccepted ==
    [][ NovelOffered =>
          /\ Len(sensorReadings') > 0
          /\ SameObservation(sensorReadings'[1], apiResponse)
          /\ sessionDue' ]_vars

-----------------------------------------------------------------------------
\* C30: every session of the persisted archive is still in it after a step,
\* unless the step is a closure that pushes it beyond the tenth place or a
\* confirmDelete whose pending id is the session's own; a confirmDelete of
\* another id does not remove it, whenever the reports page was loaded.
C30_StoredUntilEvictedOrDeleted ==
    [][ \A i \in 1..Len(storage) :
          \/ storage[i] \in SeqToSet(storage')
          \/ Closes /\ i = 10
          \/ confirmDelete /\ storage[i].id = sessionToDelete ]_vars

====
